---------------------------- MODULE Spec2Model ----------------------------
(***************************************************************************)
(* A model of core.js (the later of the two revisions kept in src/core.js, *)
(* lines 271-551): the data accessor, the token generator, the text        *)
(* helpers and the time helpers.  Every routine is a function of its       *)
(* arguments; the model is a state machine whose actions are the calls a   *)
(* client can make.  `call` holds the last call and its arguments, `ret`   *)
(* what it returned or threw, and `pc`/`loc` the position and the local    *)
(* variables of the routines whose loops are modelled step by step.        *)
(*                                                                         *)
(* JavaScript strings are sequences of one-character strings, so that      *)
(* splitting, replacing, trimming and joining are computed and not assumed.*)
(***************************************************************************)
EXTENDS Integers, Sequences, FiniteSets, TLC

VARIABLES pc, call, ret, loc

vars == <<pc, call, ret, loc>>

(***************************************************************************)
(* JavaScript values.                                                      *)
(***************************************************************************)
Undefined == [k |-> "undefined"]
Null == [k |-> "null"]
NaN == [k |-> "NaN"]
Bool(b) == [k |-> "boolean", b |-> b]
Num(n) == [k |-> "number", n |-> n]
Str(s) == [k |-> "string", s |-> s]
Obj(f) == [k |-> "object", f |-> f]
Arr(e) == [k |-> "array", e |-> e]
DateOf(v) == [k |-> "date", of |-> v]
InvalidDate == [k |-> "date", invalid |-> TRUE]
Fn(name) == [k |-> "function", name |-> name]

Return(v) == [kind |-> "return", value |-> v]
Throw(e, m) == [kind |-> "throw", error |-> e, message |-> m]

(***************************************************************************)
(* String literals of the source.                                          *)
(***************************************************************************)
TString == <<"s", "t", "r", "i", "n", "g">>
TNumber == <<"n", "u", "m", "b", "e", "r">>
TBoolean == <<"b", "o", "o", "l", "e", "a", "n">>
TDate == <<"d", "a", "t", "e">>
TArray == <<"a", "r", "r", "a", "y">>
TObject == <<"o", "b", "j", "e", "c", "t">>
ParsableType == {TString, TNumber, TBoolean, TDate, TArray, TObject}

SUndefined == <<"u", "n", "d", "e", "f", "i", "n", "e", "d">>
SNull == <<"n", "u", "l", "l">>
STrue == <<"t", "r", "u", "e">>
SFalse == <<"f", "a", "l", "s", "e">>
SNaN == <<"N", "a", "N">>
SObjectObject == <<"[", "o", "b", "j", "e", "c", "t", " ", "O", "b", "j", "e", "c", "t", "]">>
SNativePrefix == <<"f", "u", "n", "c", "t", "i", "o", "n", " ">>
SNativeSuffix == <<"(", ")", " ", "{", " ", "[", "n", "a", "t", "i", "v", "e", " ", "c", "o", "d", "e", "]", " ", "}">>
SObjectName == <<"O", "b", "j", "e", "c", "t">>
SFunctionName == <<"F", "u", "n", "c", "t", "i", "o", "n">>
SConstructor == <<"c", "o", "n", "s", "t", "r", "u", "c", "t", "o", "r">>

Digits == <<"0", "1", "2", "3", "4", "5", "6", "7", "8", "9">>
DigitSet == {Digits[i] : i \in 1..10}
DigitValue(c) == (CHOOSE i \in 1..10 : Digits[i] = c) - 1

(***************************************************************************)
(* Number -> string, as template literals and String() render an integer.  *)
(***************************************************************************)
RECURSIVE NatToString(_)
NatToString(n) ==
    IF n < 10 THEN <<Digits[n + 1]>>
    ELSE NatToString(n \div 10) \o <<Digits[(n % 10) + 1]>>

IntToString(n) == IF n < 0 THEN <<"-">> \o NatToString(-n) ELSE NatToString(n)

(***************************************************************************)
(* String.prototype.split('.') : the segments between the separators; the  *)
(* empty string splits into one empty segment.                             *)
(***************************************************************************)
RECURSIVE SplitFrom(_, _, _)
SplitFrom(s, sep, cur) ==
    IF s = <<>> THEN <<cur>>
    ELSE IF Head(s) = sep THEN <<cur>> \o SplitFrom(Tail(s), sep, <<>>)
    ELSE SplitFrom(Tail(s), sep, Append(cur, Head(s)))

Split(s, sep) == SplitFrom(s, sep, <<>>)

(***************************************************************************)
(* The language operations `get` and `treatAs` apply to a value.           *)
(***************************************************************************)
\* !value
Falsy(v) ==
    \/ v.k \in {"undefined", "null", "NaN"}
    \/ v.k = "boolean" /\ ~v.b
    \/ v.k = "number" /\ v.n = 0
    \/ v.k = "string" /\ v.s = <<>>

IsObject(v) == v.k \in {"object", "array", "date", "function"}

\* The property names every object inherits; `in` sees them.  Only the one
\* the modelled paths mention is listed.
ProtoKeys == {SConstructor}

OwnKeys(v) ==
    CASE v.k = "object" -> DOMAIN v.f
      [] v.k = "array" -> {NatToString(i - 1) : i \in 1..Len(v.e)}
      [] OTHER -> {}

\* key in object, for an object
HasProperty(v, key) == key \in OwnKeys(v) \/ key \in ProtoKeys

\* object[key], for an object that has the property
GetProperty(v, key) ==
    IF key \in OwnKeys(v)
    THEN IF v.k = "object" THEN v.f[key]
         ELSE v.e[(CHOOSE i \in 1..Len(v.e) : NatToString(i - 1) = key)]
    ELSE IF v.k = "function" THEN Fn(SFunctionName) ELSE Fn(SObjectName)

RECURSIVE JoinStrings(_, _)
JoinStrings(parts, sep) ==
    IF parts = <<>> THEN <<>>
    ELSE IF Len(parts) = 1 THEN parts[1]
    ELSE parts[1] \o sep \o JoinStrings(Tail(parts), sep)

\* String(value); arrays hold only strings in this model
ToStr(v) ==
    CASE v.k = "undefined" -> SUndefined
      [] v.k = "null" -> SNull
      [] v.k = "NaN" -> SNaN
      [] v.k = "boolean" -> IF v.b THEN STrue ELSE SFalse
      [] v.k = "number" -> IntToString(v.n)
      [] v.k = "string" -> v.s
      [] v.k = "object" -> SObjectObject
      [] v.k = "array" -> JoinStrings([i \in 1..Len(v.e) |-> v.e[i].s], <<",">>)
      [] v.k = "function" -> SNativePrefix \o v.name \o SNativeSuffix

RECURSIVE DigitPrefix(_)
DigitPrefix(s) ==
    IF s # <<>> /\ Head(s) \in DigitSet THEN <<Head(s)>> \o DigitPrefix(Tail(s))
    ELSE <<>>

RECURSIVE DigitsToNat(_, _)
DigitsToNat(s, acc) ==
    IF s = <<>> THEN acc ELSE DigitsToNat(Tail(s), acc * 10 + DigitValue(Head(s)))

\* parseFloat(value): the value's string form, then its longest numeric
\* prefix.  The strings of this model hold no sign, point, exponent or
\* leading blank, so the numeric prefix is the leading run of digits.
ParseFloat(v) ==
    LET p == DigitPrefix(ToStr(v))
    IN IF p = <<>> THEN NaN ELSE Num(DigitsToNat(p, 0))

\* Boolean(value)
ToBoolean(v) == Bool(~Falsy(v))

\* value.match(/^[0-9]{4}-[0-9]{2}-[0-9]{2}$/)
MatchesIsoDate(s) ==
    /\ Len(s) = 10
    /\ \A i \in {1, 2, 3, 4, 6, 7, 9, 10} : s[i] \in DigitSet
    /\ s[5] = "-" /\ s[8] = "-"

\* value.replace(/-/g, ' ')
ReplaceDashes(s) == [i \in 1..Len(s) |-> IF s[i] = "-" THEN " " ELSE s[i]]

\* The host's date parser on the strings of this model: "YYYY MM DD" is
\* read as a local calendar date, every other string here is no date.
ParsesAsDate(s) ==
    /\ Len(s) = 10
    /\ \A i \in {1, 2, 3, 4, 6, 7, 9, 10} : s[i] \in DigitSet
    /\ s[5] = " " /\ s[8] = " "

\* new Date(value): a string is parsed, any other primitive is a number of
\* milliseconds, an object is converted to its string form first.
NewDate(v) ==
    CASE v.k = "string" -> IF ParsesAsDate(v.s) THEN DateOf(v) ELSE InvalidDate
      [] v.k = "number" -> DateOf(v)
      [] v.k = "boolean" -> DateOf(Num(IF v.b THEN 1 ELSE 0))
      [] v.k = "null" -> DateOf(Num(0))
      [] v.k = "date" -> v
      [] OTHER -> InvalidDate

\* Symbol.iterator in Object(value)
Iterable(v) == v.k \in {"string", "array"}

\* [...value]
Spread(v) == IF v.k = "array" THEN v ELSE Arr([i \in 1..Len(v.s) |-> Str(<<v.s[i]>>)])

(***************************************************************************)
(* core.data.treatAs                                                       *)
(***************************************************************************)
SInvalidType == <<"I", "n", "v", "a", "l", "i", "d", " ", "t", "y", "p", "e", " ", "\"">>
SQuoteDot == <<"\"", ".">>

InvalidTypeError(type) == Throw("Error", SInvalidType \o type \o SQuoteDot)

\* the switch of treatAs, lines 314-339
Coerce(value, type) ==
    CASE type = TString -> Return(Str(ToStr(value)))
      [] type = TNumber ->
            LET parsed == ParseFloat(value)
            IN IF parsed = NaN THEN Return(Null) ELSE Return(parsed)
      [] type = TBoolean ->
            IF value = Str(STrue) THEN Return(Bool(TRUE))
            ELSE IF value = Str(SFalse) THEN Return(Bool(FALSE))
            ELSE Return(ToBoolean(value))
      [] type = TDate ->
            LET v1 == IF value.k = "string" /\ MatchesIsoDate(value.s)
                      THEN Str(ReplaceDashes(value.s)) ELSE value
                d == NewDate(v1)
            IN IF d = InvalidDate THEN Return(Null) ELSE Return(d)
      [] type = TArray ->
            IF ~Iterable(value) THEN Return(Null) ELSE Return(Spread(value))
      [] type = TObject -> Return(value)
      [] OTHER -> InvalidTypeError(type)

\* A treatAs that lacks the null/undefined guard of line 313.
treatAsUnguarded(value, type) == Coerce(value, type)

treatAs(value, type) ==
    IF value = Null \/ value = Undefined THEN Return(Null)
    ELSE Coerce(value, type)

(***************************************************************************)
(* core.data.get                                                           *)
(***************************************************************************)
SMissingRequired == <<"M", "i", "s", "s", "i", "n", "g", " ", "r", "e", "q", "u", "i", "r", "e", "d", " ">>
SField == <<" ", "f", "i", "e", "l", "d", " ", "\"">>
SCannotUseIn == <<"C", "a", "n", "n", "o", "t", " ", "u", "s", "e", " ", "'", "i", "n", "'", " ", "o", "p", "e", "r", "a", "t", "o", "r", " ", "t", "o", " ", "s", "e", "a", "r", "c", "h", " ", "f", "o", "r", " ", "'">>
SIn == <<"'", " ", "i", "n", " ">>

MissingFieldError(type, field) ==
    Throw("Error", SMissingRequired \o type \o SField \o field \o SQuoteDot)

\* `key in object` on a primitive that is not falsy
InOperatorError(key, object) ==
    Throw("TypeError", SCannotUseIn \o key \o SIn \o ToStr(object))

\* The inner function of get.  `path` holds the segments still to walk, in
\* order (the code keeps them reversed and pops from the end).
RECURSIVE search(_, _)
search(object, path) ==
    LET key == Head(path)
        rest == Tail(path)
    IN IF key = <<>> \/ Falsy(object) THEN Return(Undefined)
       ELSE IF ~IsObject(object) THEN InOperatorError(key, object)
       ELSE IF ~HasProperty(object, key) THEN Return(Undefined)
       ELSE IF rest = <<>> THEN Return(GetProperty(object, key))
       ELSE search(GetProperty(object, key), rest)

\* lines 298-303, given what the walk produced
Deliver(found, field, type, fallback) ==
    IF found.kind = "throw" THEN found
    ELSE LET value == treatAs(found.value, type)
         IN IF value.kind = "throw" THEN value
            ELSE IF value.value = Null
            THEN IF fallback = Undefined THEN MissingFieldError(type, field)
                 ELSE Return(fallback)
            ELSE value

\* A get that tests the coerced value with `!value` in place of
\* `value === null`.
getFalsyIsMissing(source, field, type, fallback) ==
    LET found == search(source, Split(field, "."))
        value == IF found.kind = "throw" THEN found ELSE treatAs(found.value, type)
    IN IF value.kind = "throw" THEN value
       ELSE IF Falsy(value.value)
       THEN IF fallback = Undefined THEN MissingFieldError(type, field)
            ELSE Return(fallback)
       ELSE value

get(source, field, type, fallback) ==
    Deliver(search(source, Split(field, ".")), field, type, fallback)

(***************************************************************************)
(* The values the calls are made with.                                     *)
(***************************************************************************)
TBogus == <<"b", "o", "g", "u", "s">>
TypeTags == ParsableType \cup {TBogus}

SIsoDate == <<"2", "0", "2", "0", "-", "0", "1", "-", "0", "2">>
SFb == <<"f", "b">>

Leaves ==
    {Undefined, Null, Bool(FALSE), Num(0), Str(<<>>), Str(<<"x">>),
     Str(SFalse), Str(SIsoDate)}

Keys == {<<"a">>, <<>>}

EmptyObject == Obj([key \in {} |-> Null])
Inner1 == {Obj([key \in {kk} |-> v]) : kk \in Keys, v \in Leaves}
InnerObjects == {EmptyObject} \cup Inner1

Values == Leaves \cup InnerObjects

Sources ==
    {EmptyObject}
      \cup {Obj([key \in {<<"a">>} |-> v]) : v \in Values}
      \cup {Obj([key \in {<<>>} |-> Str(<<"x">>)])}
      \cup {Obj([key \in Keys |-> IF key = <<"a">> THEN v ELSE Str(<<"x">>)]) : v \in Values}

Fields ==
    {<<>>, <<"a">>, <<"b">>, <<"a", ".", "a">>, <<"a", ".">>, <<".", "a">>,
     <<"a", ".", "b">>, SConstructor, <<"a", ".">> \o SConstructor}

Fallbacks == {Undefined, Null, Str(SFb)}

(***************************************************************************)
(* core.random.token                                                       *)
(***************************************************************************)
HexDigits == <<"0", "1", "2", "3", "4", "5", "6", "7", "8", "9", "a", "b", "c", "d", "e", "f">>
DefaultTokenSize == 16

\* Math.round(size / 2): the nearest integer, a half rounded up
RoundHalf(size) == (size + 1) \div 2

\* buffer.toString('hex'): two lowercase digits for each byte
RECURSIVE ToHex(_)
ToHex(bytes) ==
    IF bytes = <<>> THEN <<>>
    ELSE <<HexDigits[(Head(bytes) \div 16) + 1], HexDigits[(Head(bytes) % 16) + 1]>>
            \o ToHex(Tail(bytes))

\* crypto.randomBytes(n): any n bytes; the model draws each from ByteSamples
ByteSamples == {9, 171}
RandomBytes(n) == [1..n -> ByteSamples]

\* the bytes token asks the random source for
TokenByteCount(size) == RoundHalf(size)

token(bytes) == Return(Str(ToHex(bytes)))

(***************************************************************************)
(* core.text                                                               *)
(***************************************************************************)
EndsWith(word, c) == word # <<>> /\ word[Len(word)] = c

\* The earlier revision's pluralize (line 104): the plural for every
\* positive count, the word itself otherwise.
pluralizePositive(word, count) ==
    IF count > 0
    THEN IF EndsWith(word, "s") THEN word \o <<"e", "s">> ELSE word \o <<"s">>
    ELSE word

pluralize(word, count) ==
    IF count # 1
    THEN IF EndsWith(word, "s") THEN word \o <<"e", "s">> ELSE word \o <<"s">>
    ELSE word

\* string.replace('"', to) with a string pattern: the first occurrence only
RECURSIVE ReplaceFirst(_, _, _)
ReplaceFirst(s, from, to) ==
    IF s = <<>> THEN <<>>
    ELSE IF Head(s) = from THEN <<to>> \o Tail(s)
    ELSE <<Head(s)>> \o ReplaceFirst(Tail(s), from, to)

\* a replace that changes every occurrence
ReplaceAll(s, from, to) == [i \in 1..Len(s) |-> IF s[i] = from THEN to ELSE s[i]]

\* an escape that replaces every double quote
EscapeCellEvery(s) == ReplaceAll(s, "\"", "'")

\* cell.toString().replace('"', '\'')
EscapeCell(s) == ReplaceFirst(s, "\"", "'")

CsvCell(cell) == <<"\"">> \o EscapeCell(ToStr(cell)) \o <<"\"">>

CsvRow(row) == JoinStrings([i \in 1..Len(row) |-> CsvCell(row[i])], <<",">>)

csvify(rows) == Return(Str(JoinStrings([i \in 1..Len(rows) |-> CsvRow(rows[i])], <<"\n">>)))

UpperLetters == <<"A", "B", "C", "D", "E", "F", "G", "H", "I", "J", "K", "L", "M", "N", "O", "P", "Q", "R", "S", "T", "U", "V", "W", "X", "Y", "Z">>
LowerLetters == <<"a", "b", "c", "d", "e", "f", "g", "h", "i", "j", "k", "l", "m", "n", "o", "p", "q", "r", "s", "t", "u", "v", "w", "x", "y", "z">>
UpperSet == {UpperLetters[i] : i \in 1..26}
LowerSet == {LowerLetters[i] : i \in 1..26}

\* One character of text is one code point.  A code point outside ASCII is
\* written by its name: "U+212A" is KELVIN SIGN, "U+00C9" is E WITH ACUTE and
\* "U+00E9" its small letter.
LowerChar(c) ==
    IF c \in UpperSet THEN LowerLetters[CHOOSE i \in 1..26 : UpperLetters[i] = c]
    ELSE IF c = "U+212A" THEN "k"
    ELSE IF c = "U+00C9" THEN "U+00E9"
    ELSE c

\* text.toLowerCase()
ToLowerCase(s) == [i \in 1..Len(s) |-> LowerChar(s[i])]

\* [a-z0-9]
IsSlugChar(c) == c \in LowerSet \cup DigitSet

\* s.replace(/[^a-z0-9]+/g, ' '): each maximal run becomes one blank
RECURSIVE CollapseNonAlnum(_)
CollapseNonAlnum(s) ==
    IF s = <<>> THEN <<>>
    ELSE IF IsSlugChar(Head(s)) THEN <<Head(s)>> \o CollapseNonAlnum(Tail(s))
    ELSE IF Len(s) > 1 /\ ~IsSlugChar(s[2]) THEN CollapseNonAlnum(Tail(s))
    ELSE <<" ">> \o CollapseNonAlnum(Tail(s))

\* s.trim(): the blanks at both ends removed
RECURSIVE TrimStart(_)
TrimStart(s) == IF s # <<>> /\ Head(s) = " " THEN TrimStart(Tail(s)) ELSE s

RECURSIVE TrimEnd(_)
TrimEnd(s) ==
    IF s # <<>> /\ s[Len(s)] = " " THEN TrimEnd(SubSeq(s, 1, Len(s) - 1)) ELSE s

Trim(s) == TrimEnd(TrimStart(s))

\* s.replace(/ +/g, '-'): each maximal run of blanks becomes one hyphen
RECURSIVE HyphenateBlanks(_)
HyphenateBlanks(s) ==
    IF s = <<>> THEN <<>>
    ELSE IF Head(s) # " " THEN <<Head(s)>> \o HyphenateBlanks(Tail(s))
    ELSE IF Len(s) > 1 /\ s[2] = " " THEN HyphenateBlanks(Tail(s))
    ELSE <<"-">> \o HyphenateBlanks(Tail(s))

toSlug(text) == HyphenateBlanks(Trim(CollapseNonAlnum(ToLowerCase(text))))

(***************************************************************************)
(* The arguments of the random and text calls.                             *)
(***************************************************************************)
MaxTokenSize == 5
MaxWordLen == 2
MaxCount == 2
MaxCells == 2
MaxRows == 2
MaxTextLen == 3

SeqsUpTo(S, n) == UNION {[1..m -> S] : m \in 0..n}

SCat == <<"c", "a", "t">>
SBus == <<"b", "u", "s">>
Words == {SCat, SBus} \cup SeqsUpTo({"a", "s"}, MaxWordLen)
Counts == (0 - MaxCount)..MaxCount

CellSamples == {Str(<<>>), Str(<<"\"", "a", "\"">>), Num(7)}
ExampleRow1 == <<Str(<<"a">>), Str(<<"b">>)>>
ExampleRow2 == <<Str(<<"c", ",", "d">>), Str(<<"e", "\"", "f">>)>>
RowSamples == SeqsUpTo(CellSamples, MaxCells) \cup {ExampleRow1, ExampleRow2}
Tables == SeqsUpTo(RowSamples, MaxRows)

SSlugExample == <<"J", "e", "r", "e", "m", "y", "'", "s", " ", "F", "r", "i", "e", "n", "d", " ", "W", "a", "s", " ", "H", "e", "r", "e">>
SlugAlphabet == {"a", "B", "1", " ", "-", "U+212A", "U+00C9"}
Texts == SeqsUpTo(SlugAlphabet, MaxTextLen) \cup {SSlugExample}

(***************************************************************************)
(* core.time.getTimeZoneOffset                                             *)
(***************************************************************************)
\* hoursOffset < -12, hoursOffset > 12: the tests of the two loops
BelowRange(hoursOffset) == hoursOffset < -12
AboveRange(hoursOffset) == hoursOffset > 12

\* a step of the first loop that adds half a day
WrapUpHalfDay(hoursOffset) == hoursOffset + 12

\* hoursOffset += 24, hoursOffset -= 24
WrapUp(hoursOffset) == hoursOffset + 24
WrapDown(hoursOffset) == hoursOffset - 24

\* hoursOffset * 60 * 60 * 1000
OffsetMilliseconds(hoursOffset) == hoursOffset * 60 * 60 * 1000

(***************************************************************************)
(* core.time.toDurationString                                              *)
(***************************************************************************)
SECOND == 1000
MINUTE == SECOND * 60
HOUR == MINUTE * 60
DAY == HOUR * 24

\* a conversion that drops the remainder, as Math.floor would
TruncateToSeconds(milliseconds) == milliseconds \div SECOND

\* Math.round(milliseconds / SECOND): the nearest integer, a half rounded up
RoundToSeconds(milliseconds) == (2 * milliseconds + SECOND) \div (2 * SECOND)

SDay == <<"d", "a", "y">>
SHour == <<"h", "o", "u", "r">>
SMinute == <<"m", "i", "n", "u", "t", "e">>
SSecond == <<"s", "e", "c", "o", "n", "d">>
SLessThanASecond == <<"l", "e", "s", "s", " ", "t", "h", "a", "n", " ", "a", " ", "s", "e", "c", "o", "n", "d">>

\* `${count} ${long ? core.text.pluralize(unit, count) : short}`
Piece(count, unit, short, long) ==
    NatToString(count) \o <<" ">> \o (IF long THEN pluralize(unit, count) ELSE short)

\* a test that lets a bucket of zero through
ShownIfNotNegative(count) == count >= 0

\* if (count > 0) pieces.push(...)
Shown(count) == count > 0

\* lines 503-508
Pieces(days, hours, minutes, seconds, long) ==
    LET all == <<[n |-> days, p |-> Piece(days, SDay, <<"d">>, long)],
                 [n |-> hours, p |-> Piece(hours, SHour, <<"h">>, long)],
                 [n |-> minutes, p |-> Piece(minutes, SMinute, <<"m">>, long)],
                 [n |-> seconds, p |-> Piece(seconds, SSecond, <<"s">>, long)]>>
        IsShown(x) == Shown(x.n)
        kept == SelectSeq(all, IsShown)
        pieces == [i \in 1..Len(kept) |-> kept[i].p]
    IN IF Len(pieces) = 0 THEN <<SLessThanASecond>> ELSE pieces

\* pieces.join(', ')
RenderDuration(days, hours, minutes, seconds, long) ==
    JoinStrings(Pieces(days, hours, minutes, seconds, long), <<",", " ">>)

(***************************************************************************)
(* The arguments of the time calls.                                        *)
(***************************************************************************)
MaxDays == 2
HourSamples == {0, 1, 23}
MinuteSamples == {0, 1, 59}
SecondSamples == {0, 1, 59}
RemainderSamples == {0, 499, 500}
Durations ==
    {d * DAY + h * HOUR + m * MINUTE + sec * SECOND + r :
        d \in 0..MaxDays, h \in HourSamples, m \in MinuteSamples,
        sec \in SecondSamples, r \in RemainderSamples}

\* the hour a clock can show
ClockHours == 0..23

(***************************************************************************)
(* The calls.                                                              *)
(***************************************************************************)
Init ==
    /\ pc = "idle"
    /\ call = [op |-> "none"]
    /\ ret = [kind |-> "none"]
    /\ loc = [op |-> "none"]

Get ==
    /\ pc = "idle"
    /\ \E source \in Sources, field \in Fields, type \in TypeTags, fallback \in Fallbacks :
          /\ call' = [op |-> "get", source |-> source, field |-> field,
                      type |-> type, fallback |-> fallback]
          /\ ret' = get(source, field, type, fallback)
    /\ pc' = "returned"
    /\ UNCHANGED loc

TreatAs ==
    /\ pc = "idle"
    /\ \E value \in Values, type \in TypeTags :
          /\ call' = [op |-> "treatAs", value |-> value, type |-> type]
          /\ ret' = treatAs(value, type)
    /\ pc' = "returned"
    /\ UNCHANGED loc

\* token(size), or token() when `args` is empty
Token ==
    /\ pc = "idle"
    /\ \E args \in {<<>>} \cup {<<n>> : n \in 0..MaxTokenSize} :
          LET size == IF args = <<>> THEN DefaultTokenSize ELSE args[1]
          IN \E bytes \in RandomBytes(TokenByteCount(size)) :
                /\ call' = [op |-> "token", args |-> args]
                /\ ret' = token(bytes)
    /\ pc' = "returned"
    /\ UNCHANGED loc

Pluralize ==
    /\ pc = "idle"
    /\ \E word \in Words, count \in Counts :
          /\ call' = [op |-> "pluralize", word |-> word, count |-> count]
          /\ ret' = Return(Str(pluralize(word, count)))
    /\ pc' = "returned"
    /\ UNCHANGED loc

\* `loc.rows` is the caller's array as the call leaves it
Csvify ==
    /\ pc = "idle"
    /\ \E rows \in Tables :
          /\ call' = [op |-> "csvify", rows |-> rows]
          /\ ret' = csvify(rows)
          /\ loc' = [op |-> "csvify", rows |-> rows]
    /\ pc' = "returned"

ToSlug ==
    /\ pc = "idle"
    /\ \E text \in Texts :
          /\ call' = [op |-> "toSlug", text |-> text]
          /\ ret' = Return(Str(toSlug(text)))
    /\ pc' = "returned"
    /\ UNCHANGED loc

\* getTimeZoneOffset(timeZone, date): `zoneHours` is the hour the formatter
\* reports for the zone, `utcHours` is date.getUTCHours().  `iterations`
\* counts the passes of the two loops.
TzStart ==
    /\ pc = "idle"
    /\ \E zoneHours \in ClockHours, utcHours \in ClockHours :
          /\ call' = [op |-> "getTimeZoneOffset", zoneHours |-> zoneHours,
                      utcHours |-> utcHours]
          /\ loc' = [op |-> "getTimeZoneOffset", hoursOffset |-> zoneHours - utcHours,
                     iterations |-> 0]
    /\ pc' = "tz_below"
    /\ UNCHANGED ret

\* while (hoursOffset < -12) hoursOffset += 24;
TzBelow ==
    /\ pc = "tz_below"
    /\ IF BelowRange(loc.hoursOffset)
       THEN /\ loc' = [loc EXCEPT !.hoursOffset = WrapUp(@), !.iterations = @ + 1]
            /\ UNCHANGED pc
       ELSE /\ pc' = "tz_above"
            /\ UNCHANGED loc
    /\ UNCHANGED <<call, ret>>

\* while (hoursOffset > 12) hoursOffset -= 24; return ...
TzAbove ==
    /\ pc = "tz_above"
    /\ IF AboveRange(loc.hoursOffset)
       THEN /\ loc' = [loc EXCEPT !.hoursOffset = WrapDown(@), !.iterations = @ + 1]
            /\ UNCHANGED <<pc, ret>>
       ELSE /\ ret' = Return(Num(OffsetMilliseconds(loc.hoursOffset)))
            /\ pc' = "returned"
            /\ UNCHANGED loc
    /\ UNCHANGED call

\* toDurationString(milliseconds, long), or without `long` when the second
\* element of `args` is missing
DurationStart ==
    /\ pc = "idle"
    /\ \E milliseconds \in Durations, rest \in {<<>>, <<TRUE>>, <<FALSE>>} :
          /\ call' = [op |-> "toDurationString", milliseconds |-> milliseconds,
                      rest |-> rest]
          /\ loc' = [op |-> "toDurationString", milliseconds |-> milliseconds,
                     long |-> IF rest = <<>> THEN TRUE ELSE rest[1],
                     days |-> 0, hours |-> 0, minutes |-> 0, seconds |-> 0]
    /\ pc' = "days"
    /\ UNCHANGED ret

\* while (milliseconds >= DAY) { milliseconds -= DAY; days++; }
DurationDays ==
    /\ pc = "days"
    /\ IF loc.milliseconds >= DAY
       THEN /\ loc' = [loc EXCEPT !.milliseconds = @ - DAY, !.days = @ + 1]
            /\ UNCHANGED pc
       ELSE /\ pc' = "hours"
            /\ UNCHANGED loc
    /\ UNCHANGED <<call, ret>>

DurationHours ==
    /\ pc = "hours"
    /\ IF loc.milliseconds >= HOUR
       THEN /\ loc' = [loc EXCEPT !.milliseconds = @ - HOUR, !.hours = @ + 1]
            /\ UNCHANGED pc
       ELSE /\ pc' = "minutes"
            /\ UNCHANGED loc
    /\ UNCHANGED <<call, ret>>

DurationMinutes ==
    /\ pc = "minutes"
    /\ IF loc.milliseconds >= MINUTE
       THEN /\ loc' = [loc EXCEPT !.milliseconds = @ - MINUTE, !.minutes = @ + 1]
            /\ UNCHANGED pc
       ELSE /\ pc' = "seconds"
            /\ UNCHANGED loc
    /\ UNCHANGED <<call, ret>>

DurationSeconds ==
    /\ pc = "seconds"
    /\ IF loc.milliseconds >= SECOND
       THEN /\ loc' = [loc EXCEPT !.milliseconds = @ - SECOND, !.seconds = @ + 1]
            /\ UNCHANGED pc
       ELSE /\ pc' = "render"
            /\ UNCHANGED loc
    /\ UNCHANGED <<call, ret>>

\* lines 502-509
DurationRender ==
    /\ pc = "render"
    /\ LET seconds == loc.seconds + RoundToSeconds(loc.milliseconds)
       IN /\ loc' = [loc EXCEPT !.seconds = seconds]
          /\ ret' = Return(Str(RenderDuration(loc.days, loc.hours, loc.minutes,
                                              seconds, loc.long)))
    /\ pc' = "returned"
    /\ UNCHANGED call

\* The caller has taken the result; nothing of the call is kept.
Resume ==
    /\ pc = "returned"
    /\ pc' = "idle"
    /\ call' = [op |-> "none"]
    /\ ret' = [kind |-> "none"]
    /\ loc' = [op |-> "none"]

Next ==
    \/ Get
    \/ TreatAs
    \/ Token
    \/ Pluralize
    \/ Csvify
    \/ ToSlug
    \/ TzStart
    \/ TzBelow
    \/ TzAbove
    \/ DurationStart
    \/ DurationDays
    \/ DurationHours
    \/ DurationMinutes
    \/ DurationSeconds
    \/ DurationRender
    \/ Resume

Spec == Init /\ [][Next]_vars

(***************************************************************************)
(* What the properties below speak of: the mapping a path leads through.   *)
(***************************************************************************)
Segments(field) == Split(field, ".")

\* every segment is a key of the mapping reached so far
RECURSIVE PathPresent(_, _)
PathPresent(m, segs) ==
    /\ m.k = "object"
    /\ Head(segs) \in DOMAIN m.f
    /\ Len(segs) > 1 => PathPresent(m.f[Head(segs)], Tail(segs))

RECURSIVE ValueAt(_, _)
ValueAt(m, segs) ==
    IF Len(segs) = 1 THEN m.f[Head(segs)] ELSE ValueAt(m.f[Head(segs)], Tail(segs))

NoEmptySegment(segs) == \A i \in 1..Len(segs) : segs[i] # <<>>

GetOfPresentCoercible ==
    /\ call.op = "get"
    /\ call.type \in ParsableType
    /\ PathPresent(call.source, Segments(call.field))
    /\ treatAs(ValueAt(call.source, Segments(call.field)), call.type) # Return(Null)

\* C1 as stated: get of a path whose segments all exist in the mapping, with
\* a value treatAs can coerce, returns exactly the coerced value, with or
\* without a fallback.
C1_PresentPathReturnsCoerced ==
    GetOfPresentCoercible =>
        ret = treatAs(ValueAt(call.source, Segments(call.field)), call.type)

\* C1 amended: the same, for paths none of whose segments is the empty
\* string (get treats an empty segment as not found, key or no key).
C1_NonEmptyPresentPathReturnsCoerced ==
    (GetOfPresentCoercible /\ NoEmptySegment(Segments(call.field))) =>
        ret = treatAs(ValueAt(call.source, Segments(call.field)), call.type)

\* a nested value that coerces to false is returned although a fallback was given
C1_Witness ==
    /\ GetOfPresentCoercible
    /\ NoEmptySegment(Segments(call.field))
    /\ Len(Segments(call.field)) = 2
    /\ call.fallback = Str(SFb)
    /\ ret = Return(Bool(FALSE))

\* C2: get of a path absent from the mapping (a key is missing on the way)
\* raises the missing-required-field error naming type and path when no
\* fallback is given, returns the fallback when one is, and raises no other
\* error.
C2_AbsentPathFallsBack ==
    (/\ call.op = "get"
     /\ call.type \in ParsableType
     /\ ~PathPresent(call.source, Segments(call.field)))
    => ret = IF call.fallback = Undefined
             THEN MissingFieldError(call.type, call.field)
             ELSE Return(call.fallback)

\* C3: a type tag outside the six is answered with the invalid-type error,
\* by treatAs for every value and by get for every source, path and
\* fallback.
C3_InvalidTypeAlwaysRaised ==
    (call.op \in {"get", "treatAs"} /\ call.type \notin ParsableType)
    => ret = InvalidTypeError(call.type)

\* C4: treatAs of null or undefined returns the not-coercible sentinel
\* (null) for each of the six type tags, and raises nothing.
C4_NullishNotCoercible ==
    (/\ call.op = "treatAs"
     /\ call.value \in {Null, Undefined}
     /\ call.type \in ParsableType)
    => ret = Return(Null)

C4_Witness ==
    /\ call.op = "treatAs"
    /\ call.value = Undefined
    /\ call.type = TBoolean
    /\ ret = Return(Null)

HexDigitSet == {HexDigits[i] : i \in 1..16}

\* C5: token(size) returns exactly size characters, each a lowercase
\* hexadecimal digit, for every size >= 0, odd or even; token() returns 16.
C5_TokenHasExactSize ==
    call.op = "token" =>
        LET size == IF call.args = <<>> THEN 16 ELSE call.args[1]
        IN /\ ret.kind = "return"
           /\ Len(ret.value.s) = size
           /\ \A i \in 1..Len(ret.value.s) : ret.value.s[i] \in HexDigitSet

\* C6: pluralize returns the word unchanged if and only if count is 1; for
\* every other count (0 and negative counts too) it returns word + "es" when
\* the word ends in "s" and word + "s" otherwise.
C6_PluralizeUnlessOne ==
    call.op = "pluralize" =>
        LET w == call.word
            plural == IF w # <<>> /\ w[Len(w)] = "s"
                      THEN w \o <<"e", "s">> ELSE w \o <<"s">>
        IN /\ (ret = Return(Str(w))) <=> (call.count = 1)
           /\ call.count # 1 => ret = Return(Str(plural))

\* pluralize('cat', 0) = 'cats'
C6_Witness ==
    /\ call.op = "pluralize"
    /\ call.word = SCat
    /\ call.count = 0
    /\ ret = Return(Str(<<"c", "a", "t", "s">>))

QuotePositions(s) == {i \in 1..Len(s) : s[i] = "\""}

\* the cell's string form between two double quotes, its first double quote
\* (if any) turned into a single quote
ExpectedCell(cell) ==
    LET s == ToStr(cell)
        q == QuotePositions(s)
        first == IF q = {} THEN 0 ELSE CHOOSE i \in q : \A j \in q : i <= j
    IN <<"\"">> \o [i \in 1..Len(s) |-> IF i = first THEN "'" ELSE s[i]] \o <<"\"">>

RECURSIVE ExpectedRow(_, _)
ExpectedRow(row, n) ==
    IF n = 0 THEN <<>>
    ELSE IF n = 1 THEN ExpectedCell(row[1])
    ELSE ExpectedRow(row, n - 1) \o <<",">> \o ExpectedCell(row[n])

RECURSIVE ExpectedCsv(_, _)
ExpectedCsv(rows, n) ==
    IF n = 0 THEN <<>>
    ELSE IF n = 1 THEN ExpectedRow(rows[1], Len(rows[1]))
    ELSE ExpectedCsv(rows, n - 1) \o <<"\n">> \o ExpectedRow(rows[n], Len(rows[n]))

UnitText(n, unit) ==
    NatToString(n) \o <<" ">> \o (IF n = 1 THEN unit ELSE unit \o <<"s">>)

\* the text so far, with the bucket added after ", " unless it is zero
WithBucket(text, n, unit) ==
    IF n = 0 THEN text
    ELSE IF text = <<>> THEN UnitText(n, unit)
    ELSE text \o <<",", " ">> \o UnitText(n, unit)

ExpectedLongDuration(days, hours, minutes, seconds) ==
    LET text == WithBucket(WithBucket(WithBucket(WithBucket(<<>>, days, SDay),
                    hours, SHour), minutes, SMinute), seconds, SSecond)
    IN IF text = <<>> THEN SLessThanASecond ELSE text

DurationReturnedLong ==
    /\ call.op = "toDurationString"
    /\ pc = "returned"
    /\ call.rest \in {<<>>, <<TRUE>>}

SOneOfEach == <<"1", " ", "d", "a", "y", ",", " ", "1", " ", "h", "o", "u", "r", ",", " ", "1", " ", "m", "i", "n", "u", "t", "e", ",", " ", "1", " ", "s", "e", "c", "o", "n", "d">>

\* C7: in long mode (the default) toDurationString lists exactly the
\* non-zero buckets in the order days, hours, minutes, seconds, each as
\* "<count> <unit>" with the unit singular for a count of 1 and plural
\* otherwise, joined by ", "; the result is "less than a second" exactly
\* when all four buckets are zero; 0 gives "less than a second" and
\* 90061000 gives "1 day, 1 hour, 1 minute, 1 second".
C7_LongDurationListsNonZeroBuckets ==
    DurationReturnedLong =>
        /\ ret = Return(Str(ExpectedLongDuration(loc.days, loc.hours, loc.minutes,
                                                 loc.seconds)))
        /\ (ret = Return(Str(SLessThanASecond)))
              <=> (loc.days = 0 /\ loc.hours = 0 /\ loc.minutes = 0 /\ loc.seconds = 0)
        /\ call.milliseconds = 0 => ret = Return(Str(SLessThanASecond))
        /\ call.milliseconds = 90061000 => ret = Return(Str(SOneOfEach))

\* a duration with a zero bucket between two non-zero ones, one of them plural
C7_Witness ==
    /\ DurationReturnedLong
    /\ call.rest = <<>>
    /\ loc.days = 2 /\ loc.hours = 0 /\ loc.minutes = 1 /\ loc.seconds = 0
    /\ ret = Return(Str(<<"2", " ", "d", "a", "y", "s", ",", " ",
                          "1", " ", "m", "i", "n", "u", "t", "e">>))

\* C8: for every zone hour h and UTC hour u in 0..23 getTimeZoneOffset
\* returns k * 3600000 with k an integer in -12..12 congruent to h - u
\* modulo 24, and the two loops end: they make at most one pass in all.
\* h - u = -19 gives +5 hours and h - u = 20 gives -4 hours.
C8_OffsetNormalised ==
    call.op = "getTimeZoneOffset" =>
        /\ loc.iterations <= 1
        /\ pc \in {"tz_below", "tz_above", "returned"}
        /\ pc = "returned" =>
              LET raw == call.zoneHours - call.utcHours
              IN /\ \E k \in -12..12 :
                       /\ ret = Return(Num(k * 3600000))
                       /\ (k - raw) % 24 = 0
                 /\ raw = -19 => ret = Return(Num(5 * 3600000))
                 /\ raw = 20 => ret = Return(Num(-4 * 3600000))

\* a raw difference of -19 hours came back as +5 hours after one pass
C8_Witness ==
    /\ call.op = "getTimeZoneOffset"
    /\ pc = "returned"
    /\ call.zoneHours - call.utcHours = -19
    /\ loc.iterations = 1
    /\ ret = Return(Num(18000000))

SafeSlug(r) ==
    /\ \A i \in 1..Len(r) : r[i] \in LowerSet \cup DigitSet \cup {"-"}
    /\ r # <<>> => r[1] # "-" /\ r[Len(r)] # "-"
    /\ \A i \in 1..(Len(r) - 1) : ~(r[i] = "-" /\ r[i + 1] = "-")

AsciiAlnum == LowerSet \cup UpperSet \cup DigitSet

SSlugOfExample == <<"j", "e", "r", "e", "m", "y", "s", "-", "f", "r", "i", "e", "n", "d", "-", "w", "a", "s", "-", "h", "e", "r", "e">>

\* C10: toSlug(text) holds only a-z, 0-9 and "-", neither starts nor ends
\* with "-", has no "--", is empty exactly when the text has no ASCII letter
\* or digit, and toSlug is idempotent; toSlug("Jeremy's Friend Was Here") is
\* "jeremys-friend-was-here".
C10_SafeIdempotentSlug ==
    call.op = "toSlug" =>
        LET r == ret.value.s
        IN /\ SafeSlug(r)
           /\ (r = <<>>) <=> (\A i \in 1..Len(call.text) : call.text[i] \notin AsciiAlnum)
           /\ toSlug(r) = r
           /\ call.text = SSlugExample => r = SSlugOfExample

DurationReturned == call.op = "toDurationString" /\ pc = "returned"

\* C11: the buckets toDurationString computes are a normalised
\* days/hours/minutes/seconds decomposition: hours <= 23, minutes <= 59 and
\* seconds <= 59, also when the sub-second remainder is rounded up into the
\* seconds bucket, so the string never shows "60 seconds".
C11_BucketsNormalised ==
    DurationReturned =>
        /\ loc.hours <= 23
        /\ loc.minutes <= 59
        /\ loc.seconds <= 59

\* the whole seconds the buckets stand for
BucketSeconds == loc.days * 86400 + loc.hours * 3600 + loc.minutes * 60 + loc.seconds

\* C12: the greedy decomposition ends and loses nothing.  While the loops
\* run, the buckets and the milliseconds still to distribute add up to the
\* argument and the latter never goes below zero, so the loops make no more
\* passes than the argument has whole seconds; on return the buckets add up
\* to the argument rounded to the nearest second, a remainder of 500 ms or
\* more rounding up, and "less than a second" is returned exactly for an
\* argument below 500 ms.
C12_DecompositionLosesNothing ==
    call.op = "toDurationString" =>
        /\ pc \in {"days", "hours", "minutes", "seconds", "render", "returned"}
        /\ loc.milliseconds >= 0
        /\ pc # "returned" =>
              /\ BucketSeconds * 1000 + loc.milliseconds = call.milliseconds
              /\ loc.days + loc.hours + loc.minutes + loc.seconds
                    <= call.milliseconds \div 1000
        /\ pc = "returned" =>
              /\ loc.milliseconds < 1000
              /\ BucketSeconds = (call.milliseconds - loc.milliseconds) \div 1000
                                    + (IF loc.milliseconds >= 500 THEN 1 ELSE 0)
              /\ BucketSeconds = (call.milliseconds + 500) \div 1000
              /\ (ret = Return(Str(SLessThanASecond))) <=> (call.milliseconds < 500)

\* 1500 ms: one second from the loop and one from the remainder rounded up
C12_Witness ==
    /\ DurationReturned
    /\ call.milliseconds = 1500
    /\ call.rest = <<TRUE>>
    /\ loc.seconds = 2
    /\ ret = Return(Str(<<"2", " ", "s", "e", "c", "o", "n", "d", "s">>))

=============================================================================
